---- MODULE Spec2Model ----
(***************************************************************************)
(* Model of PhotoboothClovers.py: the Flask routes /submit and /toggle,    *)
(* the Socket.IO connect handler and broadcast_queue, all running as       *)
(* concurrent requests against one spreadsheet (the ledger).               *)
(*                                                                         *)
(* Strings are sequences of one-character strings, so that strip, lower,   *)
(* re.sub, re.match, int() and float() are computed, not assumed.          *)
(* Every call on `sheet` is one network round trip: it is one atomic step  *)
(* and other requests may run between two of them.  Every such call may    *)
(* raise (gspread APIError), which nothing in the handlers catches.  The   *)
(* local work of a handler is part of the step of the sheet call before    *)
(* it; the work before the first call is part of that first call.          *)
(*                                                                         *)
(* State:                                                                  *)
(*   sheet      the records of the sheet, in row order (row 1, the         *)
(*              headers, is left out: record i is row i + 1)               *)
(*   req        the requests being handled                                 *)
(*   arrived    the number of requests received                            *)
(*   connected  the viewers whose socket is open                           *)
(*   inbox      for each viewer, the last queue_update it was sent         *)
(*   version    the number of writes the sheet has taken                   *)
(*   expected   for each row, its first status flipped once per toggle     *)
(*              that wrote it                                              *)
(* version and expected are history: no step reads them to decide.         *)
(***************************************************************************)
EXTENDS Integers, Sequences, FiniteSets, Bags, TLC

VARIABLES sheet, expected, version, req, arrived, connected, inbox

vars == <<sheet, expected, version, req, arrived, connected, inbox>>

(* ------------------------------------------------------------------ *)
(* Bounds of the model                                                *)
(* ------------------------------------------------------------------ *)
MaxReqs == 2
MaxViewers == 1
MaxInitRows == 1

Viewers == 1..MaxViewers

(* ------------------------------------------------------------------ *)
(* Strings                                                            *)
(* ------------------------------------------------------------------ *)
UpperCase == <<"A","B","C","D","E","F","G","H","I","J","K","L","M",
               "N","O","P","Q","R","S","T","U","V","W","X","Y","Z">>
LowerCase == <<"a","b","c","d","e","f","g","h","i","j","k","l","m",
               "n","o","p","q","r","s","t","u","v","w","x","y","z">>
Digits == <<"0","1","2","3","4","5","6","7","8","9">>

Range(s) == {s[i] : i \in DOMAIN s}

IndexOf(c, s) == CHOOSE i \in DOMAIN s : s[i] = c

\* the lower-case letter of each upper-case letter
UpperToLower == [c \in Range(UpperCase) |-> LowerCase[IndexOf(c, UpperCase)]]

LowerChar(c) == IF c \in DOMAIN UpperToLower THEN UpperToLower[c] ELSE c

\* str.lower()
Lower(s) == [i \in DOMAIN s |-> LowerChar(s[i])]

IsSpace(c) == c \in {" ", "\t", "\n"}

RECURSIVE LStrip(_)
LStrip(s) == IF s # <<>> /\ IsSpace(Head(s)) THEN LStrip(Tail(s)) ELSE s

RECURSIVE RStrip(_)
RStrip(s) ==
    IF s # <<>> /\ IsSpace(s[Len(s)]) THEN RStrip(SubSeq(s, 1, Len(s) - 1)) ELSE s

\* str.strip()
Strip(s) == LStrip(RStrip(s))

IsAlnum(c) == c \in Range(UpperCase) \cup Range(LowerCase) \cup Range(Digits)

\* re.sub(r"[^a-zA-Z0-9\s]", "", name)
SanitizeName(s) == SelectSeq(s, LAMBDA c : IsAlnum(c) \/ IsSpace(c))

\* re.sub(r"[^a-zA-Z0-9@._-]", "", email)
SanitizeEmail(s) == SelectSeq(s, LAMBDA c : IsAlnum(c) \/ c \in {"@", ".", "_", "-"})

GMAIL_COM == <<"g","m","a","i","l",".","c","o","m">>
UP_EDU_PH == <<"u","p",".","e","d","u",".","p","h">>

\* re.match(r"^[^@]+@(gmail\.com|up\.edu\.ph)$", email, re.IGNORECASE): the
\* first "@" is preceded by at least one character and followed by exactly
\* one of the two domains.
EmailRegexMatches(email) ==
    \E i \in DOMAIN email :
        /\ i >= 2
        /\ email[i] = "@"
        /\ \A j \in 1..(i - 1) : email[j] # "@"
        /\ Lower(SubSeq(email, i + 1, Len(email))) \in {GMAIL_COM, UP_EDU_PH}

valid_email(email) == IF email = <<>> THEN TRUE ELSE EmailRegexMatches(email)

AllDigits(s) == s # <<>> /\ \A i \in DOMAIN s : s[i] \in Range(Digits)

RECURSIVE DigitsValue(_)
DigitsValue(s) ==
    IF s = <<>> THEN 0
    ELSE 10 * DigitsValue(SubSeq(s, 1, Len(s) - 1)) + (IndexOf(s[Len(s)], Digits) - 1)

Unsigned(s) == IF s # <<>> /\ Head(s) \in {"+", "-"} THEN Tail(s) ELSE s
Sign(s) == IF s # <<>> /\ Head(s) = "-" THEN -1 ELSE 1

\* int(copies): an optional sign and decimal digits, ValueError otherwise.
ParseInt(s) ==
    IF AllDigits(Unsigned(s))
    THEN [ok |-> TRUE, val |-> Sign(s) * DigitsValue(Unsigned(s))]
    ELSE [ok |-> FALSE, val |-> 0]

\* float(amount), for the decimal notation sign? digits ("." digit)?; the
\* value is kept in tenths.  ValueError otherwise.
ParseFloat(s) ==
    LET u == Unsigned(s)
        n == Len(u)
    IN  IF AllDigits(u)
        THEN [ok |-> TRUE, val |-> Sign(s) * 10 * DigitsValue(u)]
        ELSE IF n >= 3 /\ u[n - 1] = "." /\ AllDigits(SubSeq(u, 1, n - 2))
                /\ u[n] \in Range(Digits)
        THEN [ok |-> TRUE,
              val |-> Sign(s) * (10 * DigitsValue(SubSeq(u, 1, n - 2))
                                 + DigitsValue(<<u[n]>>))]
        ELSE [ok |-> FALSE, val |-> 0]

\* CopiesAmountOK with the bound on copies off by one (copies < 0)
CopiesAmountOKFromZero(copies, amount) ==
    /\ ParseInt(copies).ok
    /\ ParseFloat(amount).ok
    /\ ~(ParseInt(copies).val < 0 \/ ParseFloat(amount).val < 0)

\* the try block of submit: False when ValueError is raised
CopiesAmountOK(copies, amount) ==
    /\ ParseInt(copies).ok
    /\ ParseFloat(amount).ok
    /\ ~(ParseInt(copies).val < 1 \/ ParseFloat(amount).val < 0)

(* ------------------------------------------------------------------ *)
(* Ledger rows                                                        *)
(* ------------------------------------------------------------------ *)
PENDING == <<"P","e","n","d","i","n","g">>
DONE == <<"D","o","n","e">>
SERVER_TIME == <<"n","o","w">>

Row(id, name, email, copies, amount, status, timestamp) ==
    [ID |-> id, Name |-> name, Email |-> email, Copies |-> copies,
     Amount |-> amount, Status |-> status, Timestamp |-> timestamp]

\* what row.get(key) returns when the row has no such column
None == <<"N","o","n","e">>

\* row.get(key, default)
Get(row, key, default) == IF key \in DOMAIN row THEN row[key] ELSE default

\* sheet.append_row(values)
append_row(rows, values) == Append(rows, values)

\* update_cell on a sheet taken to have no header row: row idx is record idx
update_cellNoHeaderRow(rows, idx, value) ==
    IF idx \in DOMAIN rows
    THEN [rows EXCEPT ![idx].Status = value]
    ELSE rows

\* sheet.update_cell(idx, 6, value): row idx of the sheet is record idx - 1,
\* the first row holding the headers
update_cell(rows, idx, value) ==
    IF idx - 1 \in DOMAIN rows
    THEN [rows EXCEPT ![idx - 1].Status = value]
    ELSE rows

(* ------------------------------------------------------------------ *)
(* broadcast_queue                                                    *)
(* ------------------------------------------------------------------ *)
\* ActiveOrders without the call of lower()
ActiveOrdersCaseSensitive(records) ==
    SelectSeq(records, LAMBDA o : o.Status = <<"p","e","n","d","i","n","g">>)

\* [o for o in records if o.get("Status", "").lower() == "pending"]
ActiveOrders(records) ==
    SelectSeq(records, LAMBDA o : Lower(o.Status) = <<"p","e","n","d","i","n","g">>)

\* Enumerate counting from zero, whatever `start` is
EnumerateFromZero(orders, start) ==
    [i \in DOMAIN orders |-> ("QueueNumber" :> (i - 1)) @@ orders[i]]

\* for idx, order in enumerate(active_orders, start=1): order["QueueNumber"] = idx
Enumerate(orders, start) ==
    [i \in DOMAIN orders |-> ("QueueNumber" :> (start + i - 1)) @@ orders[i]]

Projection(records) == Enumerate(ActiveOrders(records), 1)

(* ------------------------------------------------------------------ *)
(* /api/queue                                                         *)
(* ------------------------------------------------------------------ *)
\* _pending_only comparing the status as it is, without lower()
_pending_onlyNoLower(orders) ==
    SelectSeq(orders, LAMBDA o : Strip(Get(o, "Status", <<>>)) # <<"d","o","n","e">>)

\* [o for o in orders if o.get("Status", "").strip().lower() != "done"]
_pending_only(orders) ==
    SelectSeq(orders, LAMBDA o : Lower(Strip(Get(o, "Status", <<>>))) # <<"d","o","n","e">>)

\* api_queue, lines 181-185, on the records _get_records returned
api_queue(records) == Enumerate(_pending_only(records), 1)

(* ------------------------------------------------------------------ *)
(* Inputs                                                             *)
(* ------------------------------------------------------------------ *)
Form(name, email, copies, amount, timestamp) ==
    [name |-> name, email |-> email, copies |-> copies, amount |-> amount,
     timestamp |-> timestamp]

NoForm == Form(<<>>, <<>>, <<>>, <<>>, <<>>)

\* one form the code accepts, then forms that differ from it in one field
FormA == Form(<<" ", "A", "!">>, <<"a", "@", "G", "m", "a", "i", "l", ".", "c", "o", "m">>,
              <<"2">>, <<"5", ".", "0">>, <<>>)
FormZeroCopies == [FormA EXCEPT !.copies = <<"0">>]
FormTextCopies == [FormA EXCEPT !.copies = <<"x">>]
FormNegAmount == [FormA EXCEPT !.amount = <<"-", "1">>]
FormTextAmount == [FormA EXCEPT !.amount = <<>>]
FormBadDomain == [FormA EXCEPT !.email = <<"b", "@", "e", "v", "i", "l", ".", "c", "o", "m">>]
FormNoLocalPart == [FormA EXCEPT !.email = <<"@">> \o GMAIL_COM]

Forms == {FormA, FormZeroCopies, FormTextCopies, FormNegAmount,
          FormTextAmount, FormBadDomain, FormNoLocalPart}

\* the session cookie a request carries: the one /admin issues on a correct
\* password (session["is_admin"] = True), or none
AdminCookie == [is_admin |-> TRUE]
NoCookie == [is_admin |-> FALSE]
Cookies == {AdminCookie, NoCookie}

\* order ids a toggle request may name: ids of rows and one id beyond them
ToggleIds == 1..(MaxInitRows + 1)

\* ledgers left by earlier, serial runs of the program
InitRow(i, status) ==
    Row(i, <<"A">>, <<"a", "@">> \o GMAIL_COM, 2, 50, status, SERVER_TIME)

InitLedgers ==
    UNION {[1..n -> {PENDING, DONE}] : n \in 0..MaxInitRows}

(* ------------------------------------------------------------------ *)
(* Requests                                                           *)
(* ------------------------------------------------------------------ *)
\* `req` is the bag of the requests being handled: two requests in the same
\* state are not told apart.  `arrived` counts the requests received so far.
\* In a request, pc names the next call of its handler, records is the local
\* of broadcast_queue with the version of the sheet it was read at, and
\* writes, emits, matched and raisedAt record what the request has done:
\* the cells it wrote, the broadcasts it emitted, whether the loop of toggle
\* found its row, and the call that raised.
NewReq ==
    [kind |-> "", pc |-> "", form |-> NoForm, order_id |-> 0, is_admin |-> FALSE,
     viewer |-> 0, new_id |-> 0, idx |-> 0, new_status |-> <<>>, records |-> <<>>, snapVer |-> 0,
     result |-> "", writes |-> 0, emits |-> 0, matched |-> FALSE, raisedAt |-> ""]

InFlight == BagToSet(req)

NoMsg == [got |-> FALSE, ver |-> 0, msg |-> <<>>]

Init ==
    /\ \E st \in InitLedgers : sheet = [i \in DOMAIN st |-> InitRow(i, st[i])]
    /\ expected = [i \in DOMAIN sheet |-> sheet[i].Status]
    /\ version = 0
    /\ req = EmptyBag
    /\ arrived = 0
    /\ connected \in SUBSET Viewers
    /\ inbox = [v \in Viewers |->
                  IF v \in connected
                  THEN [got |-> TRUE, ver |-> 0, msg |-> Projection(sheet)]
                  ELSE NoMsg]

\* A handler that has returned or raised sends its response at once: that
\* step touches nothing shared, so no other step is taken before it.
NoneReturning == \A q \in InFlight : q.pc \notin {"done", "raised"}

\* a request arrives, as q
Arrive(q) ==
    /\ NoneReturning
    /\ arrived < MaxReqs
    /\ arrived' = arrived + 1
    /\ req' = req (+) SetToBag({q})

\* request q takes a step and becomes q2
Step(q, q2) ==
    /\ NoneReturning
    /\ req' = (req (-) SetToBag({q})) (+) SetToBag({q2})
    /\ arrived' = arrived

\* request q once its handler has returned `result`
Returned(q, result) == [q EXCEPT !.pc = "done", !.result = result, !.records = <<>>]

\* request q once the call it is at has raised
Raised(q) ==
    [q EXCEPT !.pc = "raised", !.result = "error", !.raisedAt = q.pc, !.records = <<>>]

\* lines 91-99 of submit
CleanName(f) == SanitizeName(Strip(f.name))
CleanEmail(f) == SanitizeEmail(Lower(Strip(f.email)))

\* lines 101-113 of submit: TRUE when neither early return is taken
SubmitValidates(f) ==
    /\ valid_email(CleanEmail(f))
    /\ CopiesAmountOK(Strip(f.copies), Strip(f.amount))

\* the forms submit takes past line 113
ValidForms == {f \in Forms : SubmitValidates(f)}

\* the row of line 124
SubmitRow(f, new_id) ==
    Row(new_id, CleanName(f), CleanEmail(f), ParseInt(Strip(f.copies)).val,
        ParseFloat(Strip(f.amount)).val, PENDING,
        IF Strip(f.timestamp) = <<>> THEN SERVER_TIME ELSE Strip(f.timestamp))

\* NewId without the + 1
NewIdRowCount(records) == Len(records)

\* new_id = len(records) + 1
NewId(records) == Len(records) + 1

\* submit, lines 91-117, on form f: the request as it is after the local
\* work on the form and, when the form validates, the read of the sheet
\* (which returns `data`, ok, or raises)
SubmitStart(f, data, ok) ==
    LET q == [NewReq EXCEPT !.kind = "submit", !.form = f, !.pc = "get_records"]
    IN  IF f \notin ValidForms THEN Returned(q, "redirect:form")
        ELSE IF ~ok THEN Raised(q)
        ELSE [q EXCEPT !.new_id = NewId(data), !.pc = "append_row"]

\* POST /submit
SubmitRequest(f, ok) ==
    /\ Arrive(SubmitStart(f, sheet, ok))
    /\ UNCHANGED <<sheet, expected, version, connected, inbox>>

\* SubmitAppendRow with a submit that redirects after line 124, without
\* the broadcast_queue of line 127
SubmitAppendRowNoBroadcast(q) ==
    /\ q.kind = "submit" /\ q.pc = "append_row"
    /\ sheet' = append_row(sheet, SubmitRow(q.form, q.new_id))
    /\ expected' = Append(expected, PENDING)
    /\ version' = version + 1
    /\ Step(q, Returned([q EXCEPT !.writes = @ + 1], "redirect:thanks"))
    /\ UNCHANGED <<connected, inbox>>

\* line 124
SubmitAppendRow(q) ==
    /\ q.kind = "submit" /\ q.pc = "append_row"
    /\ sheet' = append_row(sheet, SubmitRow(q.form, q.new_id))
    /\ expected' = Append(expected, PENDING)
    /\ version' = version + 1
    /\ Step(q, [q EXCEPT !.writes = @ + 1, !.pc = "bq_read"])
    /\ UNCHANGED <<connected, inbox>>

\* the rows the loop of line 165 stops at: the first with row.get("ID") == order_id
Matches(data, order_id) == {i \in DOMAIN data : data[i].ID = order_id}

FirstMatch(data, order_id) ==
    CHOOSE i \in Matches(data, order_id) : \A j \in Matches(data, order_id) : i <= j

\* NewStatus of a handler that only marks orders done
NewStatusAlwaysDone(row) == DONE

\* NewStatus writing the lower-case word in its else branch
NewStatusLowerCase(row) ==
    IF row.Status = PENDING THEN DONE ELSE <<"p","e","n","d","i","n","g">>

\* line 167
NewStatus(row) == IF row.Status = PENDING THEN DONE ELSE PENDING

\* ToggleScan aborting with a 404 when no row matches
ToggleScanNotFoundRaises(q, data) ==
    IF Matches(data, q.order_id) = {}
    THEN [q EXCEPT !.pc = "raised", !.result = "not found"]
    ELSE LET i == FirstMatch(data, q.order_id)
         IN  [q EXCEPT !.matched = TRUE, !.idx = i + 1,
                       !.new_status = NewStatus(data[i]), !.pc = "update_cell"]

\* lines 164-167 on the rows read, and 171 when no row matches
ToggleScan(q, data) ==
    IF Matches(data, q.order_id) = {}
    THEN Returned(q, "redirect:dashboard")
    ELSE LET i == FirstMatch(data, q.order_id)
         IN  [q EXCEPT !.matched = TRUE, !.idx = i + 1,
                       !.new_status = NewStatus(data[i]), !.pc = "update_cell"]

\* ToggleStart without the session check of lines 161-162
ToggleStartNoSessionCheck(order_id, cookie, data, ok) ==
    LET q == [NewReq EXCEPT !.kind = "toggle", !.order_id = order_id,
                            !.is_admin = cookie.is_admin, !.pc = "get_records"]
    IN  IF ~ok THEN Raised(q) ELSE ToggleScan(q, data)

\* toggle, lines 161-167: the request as it is after the session check and,
\* for an admin, the read of the sheet (which returns `data`, ok, or raises)
\* and the scan
ToggleStart(order_id, cookie, data, ok) ==
    LET q == [NewReq EXCEPT !.kind = "toggle", !.order_id = order_id,
                            !.is_admin = cookie.is_admin, !.pc = "get_records"]
    IN  IF ~q.is_admin THEN Returned(q, "redirect:admin")
        ELSE IF ~ok THEN Raised(q)
        ELSE ToggleScan(q, data)

\* POST /toggle/<order_id>
ToggleRequest(order_id, cookie, ok) ==
    /\ Arrive(ToggleStart(order_id, cookie, sheet, ok))
    /\ UNCHANGED <<sheet, expected, version, connected, inbox>>

\* line 168
ToggleUpdateCell(q) ==
    /\ q.kind = "toggle" /\ q.pc = "update_cell"
    /\ sheet' = update_cell(sheet, q.idx, q.new_status)
    /\ expected' = [expected EXCEPT ![q.idx - 1] = IF @ = PENDING THEN DONE ELSE PENDING]
    /\ version' = version + 1
    /\ Step(q, [q EXCEPT !.writes = @ + 1, !.pc = "bq_read"])
    /\ UNCHANGED <<connected, inbox>>

\* the ledger after an admin's toggle on order_id that runs from its read
\* to its write on the ledger `rows`, no other request writing in between
SerialToggle(rows, order_id) ==
    LET q == ToggleStart(order_id, AdminCookie, rows, TRUE)
    IN  IF q.pc = "update_cell" THEN update_cell(rows, q.idx, q.new_status) ELSE rows

\* ConnectRequest with an on_connect that does not call broadcast_queue
ConnectRequestNoBroadcast(v) ==
    /\ v \notin connected
    /\ connected' = connected \cup {v}
    /\ Arrive(Returned([NewReq EXCEPT !.kind = "connect", !.viewer = v], "connected"))
    /\ UNCHANGED <<sheet, expected, version, inbox>>

\* a viewer's browser opens its socket: on_connect runs broadcast_queue
ConnectRequest(v) ==
    /\ v \notin connected
    /\ connected' = connected \cup {v}
    /\ Arrive([NewReq EXCEPT !.kind = "connect", !.viewer = v, !.pc = "bq_read"])
    /\ UNCHANGED <<sheet, expected, version, inbox>>

\* a viewer's socket closes
Disconnect(v) ==
    /\ NoneReturning
    /\ v \in connected
    /\ connected' = connected \ {v}
    /\ inbox' = [inbox EXCEPT ![v] = NoMsg]
    /\ UNCHANGED <<sheet, expected, version, req, arrived>>

\* broadcast_queue, line 61
BroadcastRead(q) ==
    /\ q.pc = "bq_read"
    /\ Step(q, [q EXCEPT !.records = sheet, !.snapVer = version, !.pc = "bq_emit"])
    /\ UNCHANGED <<sheet, expected, version, connected, inbox>>

\* what the handler returns once broadcast_queue is over
FinalResult(kind) ==
    CASE kind = "submit" -> "redirect:thanks"
      [] kind = "toggle" -> "redirect:dashboard"
      [] OTHER -> "connected"

\* broadcast_queue, lines 64-71: active_orders from the records read, sent
\* by socketio.emit to every connected client
BroadcastEmit(q) ==
    /\ q.pc = "bq_emit"
    /\ inbox' = [v \in Viewers |->
                   IF v \in connected
                   THEN [got |-> TRUE, ver |-> q.snapVer, msg |-> Projection(q.records)]
                   ELSE inbox[v]]
    /\ Step(q, Returned([q EXCEPT !.emits = @ + 1], FinalResult(q.kind)))
    /\ UNCHANGED <<sheet, expected, version, connected>>

LedgerCalls == {"append_row", "update_cell", "bq_read"}

\* LedgerError with the exception caught and passed over: the handler goes
\* on to its next call
LedgerErrorSwallowed(q) ==
    /\ q.pc \in LedgerCalls
    /\ Step(q, IF q.pc = "bq_read"
               THEN Returned([q EXCEPT !.raisedAt = q.pc], FinalResult(q.kind))
               ELSE [q EXCEPT !.raisedAt = q.pc, !.pc = "bq_read"])
    /\ UNCHANGED <<sheet, expected, version, connected, inbox>>

\* a call on the sheet raises: no handler catches it, the request ends with
\* the exception and the sheet is as it was
LedgerError(q) ==
    /\ q.pc \in LedgerCalls
    /\ Step(q, Raised(q))
    /\ UNCHANGED <<sheet, expected, version, connected, inbox>>

\* the response (or the error page) is sent and the request is over
Respond(q) ==
    /\ q.pc \in {"done", "raised"}
    /\ req' = req (-) SetToBag({q})
    /\ UNCHANGED <<sheet, expected, version, arrived, connected, inbox>>

Next ==
    \/ \E f \in Forms, ok \in BOOLEAN : SubmitRequest(f, ok)
    \/ \E q \in InFlight : SubmitAppendRow(q)
    \/ \E id \in ToggleIds, c \in Cookies, ok \in BOOLEAN : ToggleRequest(id, c, ok)
    \/ \E q \in InFlight : ToggleUpdateCell(q)
    \/ \E v \in Viewers : ConnectRequest(v)
    \/ \E v \in Viewers : Disconnect(v)
    \/ \E q \in InFlight : BroadcastRead(q)
    \/ \E q \in InFlight : BroadcastEmit(q)
    \/ \E q \in InFlight : LedgerError(q)
    \/ \E q \in InFlight : Respond(q)

Spec == Init /\ [][Next]_vars

\* the runs in which no call on the sheet raises
NextNoFault ==
    \/ \E f \in Forms : SubmitRequest(f, TRUE)
    \/ \E q \in InFlight : SubmitAppendRow(q)
    \/ \E id \in ToggleIds, c \in Cookies : ToggleRequest(id, c, TRUE)
    \/ \E q \in InFlight : ToggleUpdateCell(q)
    \/ \E v \in Viewers : ConnectRequest(v)
    \/ \E v \in Viewers : Disconnect(v)
    \/ \E q \in InFlight : BroadcastRead(q)
    \/ \E q \in InFlight : BroadcastEmit(q)
    \/ \E q \in InFlight : Respond(q)

SpecNoFault == Init /\ [][NextNoFault]_vars

\* the runs that start while the page of a viewer is loading: its socket has
\* just opened and its on_connect has not read the sheet yet.  The requests
\* counted by `arrived` are those that come after it.
InitBurst ==
    /\ \E st \in InitLedgers : sheet = [i \in DOMAIN st |-> InitRow(i, st[i])]
    /\ expected = [i \in DOMAIN sheet |-> sheet[i].Status]
    /\ version = 0
    /\ arrived = 0
    /\ \E v \in Viewers :
          /\ connected = {v}
          /\ req = SetToBag({[NewReq EXCEPT !.kind = "connect", !.viewer = v,
                                            !.pc = "bq_read"]})
    /\ inbox = [v \in Viewers |-> NoMsg]

SpecBurst == InitBurst /\ [][Next]_vars

\* no submit stands between its read of the sheet (line 116) and its
\* append (line 124)
NoSubmitBetweenReadAndAppend ==
    \A p \in InFlight : ~(p.kind = "submit" /\ p.pc = "append_row")

\* the runs in which the submits do not overlap: a submit reads the sheet
\* only when no other submit stands between its read and its append
NextSerialSubmits ==
    \/ \E f \in Forms, ok \in BOOLEAN :
          /\ (f \in ValidForms /\ ok) => NoSubmitBetweenReadAndAppend
          /\ SubmitRequest(f, ok)
    \/ \E q \in InFlight : SubmitAppendRow(q)
    \/ \E id \in ToggleIds, c \in Cookies, ok \in BOOLEAN : ToggleRequest(id, c, ok)
    \/ \E q \in InFlight : ToggleUpdateCell(q)
    \/ \E v \in Viewers : ConnectRequest(v)
    \/ \E v \in Viewers : Disconnect(v)
    \/ \E q \in InFlight : BroadcastRead(q)
    \/ \E q \in InFlight : BroadcastEmit(q)
    \/ \E q \in InFlight : LedgerError(q)
    \/ \E q \in InFlight : Respond(q)

SpecSerialSubmits == Init /\ [][NextSerialSubmits]_vars

(* ------------------------------------------------------------------ *)
(* Properties                                                         *)
(* ------------------------------------------------------------------ *)

\* C1: the IDs of the ledger rows are pairwise distinct and strictly
\* increasing in the order the rows were appended (the order of issuance),
\* whatever the interleaving of the submit requests.
C1_IdsDistinctIncreasing ==
    \A i, j \in DOMAIN sheet : i < j => sheet[i].ID < sheet[j].ID

\* C2: no toggle is lost: once no toggle stands between its read and its
\* write, the status of every order is its first status flipped once per
\* toggle that wrote it (`expected`).
C2_NoToggleLost ==
    (\A q \in InFlight : ~(q.kind = "toggle" /\ q.pc = "update_cell"))
        => \A i \in DOMAIN sheet : sheet[i].Status = expected[i]

\* C3: a viewer never receives a projection read at an older version of
\* the ledger after one read at a newer version.
C3_PerViewerOrder ==
    [][\A v \in Viewers :
          (inbox[v].got /\ inbox'[v].got) => inbox'[v].ver >= inbox[v].ver]_vars

\* C4: once every request of a burst is over, the last projection delivered
\* to every connected viewer is the projection of the ledger as it then is.
C4_QuiescentConsistent ==
    (arrived > 0 /\ req = EmptyBag)
        => \A v \in connected : inbox[v].got /\ inbox[v].msg = Projection(sheet)

\* the messages that have been sent or are about to be: the one of every
\* broadcast_queue that has read the sheet, and the last one of every viewer
Emitted ==
    {Projection(q.records) : q \in {p \in InFlight : p.pc = "bq_emit"}}
        \cup {inbox[v].msg : v \in {w \in Viewers : inbox[w].got}}

\* C5: in every projection emitted, the QueueNumber of the i-th entry is i:
\* the queue numbers are exactly 1..len(pending), without gap or duplicate,
\* however many Done orders the ledger holds.
C5_QueueNumbersDense ==
    \A m \in Emitted : \A i \in DOMAIN m : m[i].QueueNumber = i

\* a projection of at least two entries has reached a viewer while the
\* ledger held a Done order
C5_Witness ==
    \E v \in Viewers :
        /\ inbox[v].got /\ Len(inbox[v].msg) >= 2
        /\ \E i \in DOMAIN sheet : sheet[i].Status = DONE

\* the positions of the rows of `records` whose status is Pending
PendingAt(records) == {j \in DOMAIN records : records[j].Status = PENDING}

\* the rank of position j among them
RankOf(records, j) == Cardinality({k \in PendingAt(records) : k <= j})

\* entry e of a projection without its QueueNumber
WithoutQueueNumber(e) == [k \in (DOMAIN e) \ {"QueueNumber"} |-> e[k]]

\* C6: the projection broadcast_queue computes from the rows it read holds
\* exactly the rows whose status is Pending, in the order of the ledger: it
\* has as many entries as there are such rows, and the row at position j is
\* its entry of rank j among them, with that rank as QueueNumber.
C6_PendingExactly ==
    \A q \in InFlight :
        q.pc = "bq_emit" =>
            LET m == Projection(q.records)
            IN  /\ Len(m) = Cardinality(PendingAt(q.records))
                /\ \A j \in PendingAt(q.records) :
                      /\ WithoutQueueNumber(m[RankOf(q.records, j)]) = q.records[j]
                      /\ m[RankOf(q.records, j)].QueueNumber = RankOf(q.records, j)

\* a toggle has set an order to Done and the broadcast that follows it has
\* read that row as Done, before a Pending row
C6_Witness ==
    \E q \in InFlight :
        /\ q.kind = "toggle" /\ q.pc = "bq_emit" /\ q.new_status = DONE
        /\ q.idx - 1 \in DOMAIN q.records
        /\ q.records[q.idx - 1].Status = DONE
        /\ \E j \in PendingAt(q.records) : j > q.idx - 1

\* C7: the status of every row of the ledger is Pending or Done, and so is
\* the status any toggle is about to write.
C7_StatusPendingOrDone ==
    /\ \A i \in DOMAIN sheet : sheet[i].Status \in {PENDING, DONE}
    /\ \A q \in InFlight : q.pc = "update_cell" => q.new_status \in {PENDING, DONE}

\* a toggle has written Pending over Done, next to a row a submit appended
C7_Witness ==
    /\ \E q \in InFlight :
          /\ q.kind = "toggle" /\ q.writes = 1 /\ q.new_status = PENDING
          /\ sheet[q.idx - 1].Status = PENDING
    /\ Len(sheet) > MaxInitRows

\* C8: a request whose append_row or update_cell raised has written no
\* cell, has emitted no broadcast, and ends with the error.
C8_FailedWritePublishesNothing ==
    \A q \in InFlight :
        q.raisedAt \in {"append_row", "update_cell"} =>
            q.pc = "raised" /\ q.result = "error" /\ q.writes = 0 /\ q.emits = 0

\* the append_row of a submit has raised
C8_Witness ==
    \E q \in InFlight : q.kind = "submit" /\ q.raisedAt = "append_row"

\* the part of an email after its last "@" (the whole of it without one)
RECURSIVE DomainOf(_)
DomainOf(email) ==
    IF \E i \in DOMAIN email : email[i] = "@"
    THEN DomainOf(Tail(email))
    ELSE email

\* the form fails validation, in the words of the claim: copies or amount
\* is no number, copies < 1, amount < 0, or the email is not empty and its
\* domain is none of the allowed ones
FailsValidation(f) ==
    \/ ~ParseInt(Strip(f.copies)).ok
    \/ ~ParseFloat(Strip(f.amount)).ok
    \/ ParseInt(Strip(f.copies)).val < 1
    \/ ParseFloat(Strip(f.amount)).val < 0
    \/ /\ CleanEmail(f) # <<>>
       /\ DomainOf(CleanEmail(f)) \notin {GMAIL_COM, UP_EDU_PH}

\* the forms of the inputs that fail validation
FailingForms == {f \in Forms : FailsValidation(f)}

IdsOf(rows) == {rows[i].ID : i \in DOMAIN rows}

\* C10: an admin's toggle on an ID no row carries, whose read did not
\* raise, has returned to the dashboard without a write or a broadcast.
C10_ToggleUnknownIdNoOp ==
    \A q \in InFlight :
        (/\ q.kind = "toggle" /\ q.is_admin
         /\ q.order_id \notin IdsOf(sheet)
         /\ q.raisedAt # "get_records") =>
            /\ q.pc = "done" /\ q.result = "redirect:dashboard"
            /\ q.writes = 0 /\ q.emits = 0 /\ ~q.matched

\* an admin's toggle on an ID beyond a ledger that is not empty has returned
C10_Witness ==
    \E q \in InFlight :
        /\ q.kind = "toggle" /\ q.is_admin /\ q.pc = "done"
        /\ sheet # <<>> /\ q.order_id \notin IdsOf(sheet)

\* C11: a toggle made without an admin session never reaches the state
\* machine: it has returned the redirect to the login page, and it has read
\* no row (no row matched, no status computed, no records held), written no
\* cell and emitted no broadcast.
C11_UnauthenticatedToggleNoEffect ==
    \A q \in InFlight :
        (q.kind = "toggle" /\ ~q.is_admin) =>
            /\ q.pc = "done" /\ q.result = "redirect:admin"
            /\ ~q.matched /\ q.idx = 0 /\ q.new_status = <<>>
            /\ q.records = <<>> /\ q.raisedAt = ""
            /\ q.writes = 0 /\ q.emits = 0

\* a toggle without a session, on the ID of a row of the ledger, has returned
C11_Witness ==
    \E q \in InFlight :
        /\ q.kind = "toggle" /\ ~q.is_admin /\ q.pc = "done"
        /\ q.order_id \in IdsOf(sheet)

\* the requests that hold, after a step, records they did not hold before it
NewlyRead == {q \in InFlight' \ InFlight : q.pc = "bq_emit"}

\* request q as it was before its broadcast_queue read the ledger
BeforeRead(q) == [q EXCEPT !.records = <<>>, !.snapVer = 0, !.pc = "bq_read"]

\* C12 as stated: every on_connect that is over has sent one projection.
C12_ConnectAlwaysSent ==
    \A q \in InFlight :
        (q.kind = "connect" /\ q.pc \in {"done", "raised"}) => q.emits = 1

\* what holds of the on_connect requests in every state
ConnectsSendUnlessReadRaises ==
    \A q \in InFlight :
        q.kind = "connect" =>
            /\ q.writes = 0
            /\ q.pc \in {"bq_read", "bq_emit", "done", "raised"}
            /\ q.pc = "bq_read" => q.emits = 0
            /\ q.pc = "done" =>
                  /\ q.emits = 1 /\ q.raisedAt = ""
                  /\ q.viewer \in connected =>
                        inbox[q.viewer].got /\ inbox[q.viewer].ver = q.snapVer
            /\ q.pc = "raised" => q.raisedAt = "bq_read" /\ q.emits = 0

\* C12: an on_connect reads the ledger in a step of its own, after the step
\* in which the viewer connected, and the records it then holds are the
\* ledger as it is at that step; if that read does not raise it sends one
\* projection, without a write of its own being needed, and the viewer, if
\* still connected, holds that projection when the handler returns.  An
\* on_connect whose read raised ends with the error and has sent nothing.
C12_ConnectSentUnlessReadRaises ==
    [][/\ ConnectsSendUnlessReadRaises'
       /\ \A q \in NewlyRead :
             q.kind = "connect" =>
                 /\ BeforeRead(q) \in InFlight
                 /\ q.records = sheet /\ q.snapVer = version
                 /\ sheet' = sheet]_vars

\* a viewer that had no projection has connected and holds one, and the
\* ledger has not been written since the program started
C12_Witness ==
    \E q \in InFlight :
        /\ q.kind = "connect" /\ q.pc = "done" /\ q.emits = 1
        /\ version = 0 /\ arrived = 1
        /\ q.viewer \in connected /\ inbox[q.viewer].got

\* C13 as stated: every request that has written the ledger (a submit that
\* appended its row, a toggle that updated its cell) and is over has emitted
\* one broadcast.
C13_MutationAlwaysBroadcast ==
    \A q \in InFlight :
        (q.writes >= 1 /\ q.pc \in {"done", "raised"}) => q.emits = 1

\* what holds of the requests that have written the ledger in every state
WritersBroadcastUnlessReadRaises ==
    \A q \in InFlight :
        q.writes >= 1 =>
            /\ q.writes = 1 /\ version >= 1
            /\ q.pc \in {"bq_read", "bq_emit", "done", "raised"}
            /\ q.pc \in {"bq_read", "bq_emit"} => q.emits = 0
            /\ q.pc \in {"bq_emit", "done"} => q.snapVer >= 1
            /\ q.pc = "done" =>
                  /\ q.emits = 1 /\ q.raisedAt = ""
                  /\ \A v \in connected :
                        inbox[v].got /\ inbox[v].ver = q.snapVer
            /\ q.pc = "raised" => q.raisedAt = "bq_read" /\ q.emits = 0

\* C13: the broadcast_queue of a submit or a toggle reads the ledger in a
\* step that follows the write of that request, and the records it then
\* holds are the ledger as it is at that step; when that read does not raise
\* the request emits one broadcast computed from it before it returns, which
\* every connected viewer then holds.  When the read raises, the request
\* ends with the error, its write stays in the ledger and nothing is emitted.
C13_MutationBroadcastUnlessReadRaises ==
    [][/\ WritersBroadcastUnlessReadRaises'
       /\ \A q \in NewlyRead :
             q.kind \in {"submit", "toggle"} =>
                 /\ BeforeRead(q) \in InFlight
                 /\ q.writes = 1
                 /\ q.records = sheet /\ q.snapVer = version
                 /\ sheet' = sheet]_vars

\* a toggle has updated its cell and returned, a connected viewer holds the
\* projection it emitted, and another request wrote the ledger after the
\* toggle read it
C13_Witness ==
    \E q \in InFlight :
        /\ q.kind = "toggle" /\ q.writes = 1 /\ q.pc = "done" /\ q.emits = 1
        /\ version > q.snapVer
        /\ \E v \in connected : inbox[v].ver = q.snapVer

\* the columns of a row other than Status
FixedColumns == {"ID", "Name", "Email", "Copies", "Amount", "Timestamp"}

\* the positions of `before` whose row is not the same in `after`
ChangedRows(before, after) == {i \in DOMAIN before : after[i] # before[i]}

\* C14: in every step, the ledger keeps every row it had at the position it
\* had (no row is removed or reordered), the ID, name, email, copies, amount
\* and timestamp of every such row are as they were, and if a row changed,
\* the step is the update_cell of a toggle and the one row that changed is
\* the row that toggle matched: the first whose ID is its order_id.
C14_AppendOnlyIdsImmutable ==
    [][/\ Len(sheet') >= Len(sheet)
       /\ \A i \in DOMAIN sheet : \A c \in FixedColumns : sheet'[i][c] = sheet[i][c]
       /\ ChangedRows(sheet, sheet') # {} =>
             \E q \in InFlight :
                 /\ q.kind = "toggle" /\ q.pc = "update_cell" /\ q.matched
                 /\ ChangedRows(sheet, sheet') = {q.idx - 1}
                 /\ q.idx - 1 = FirstMatch(sheet, q.order_id)
                 /\ Len(sheet') = Len(sheet)]_vars

\* a toggle has written the status of the first of two rows, in a ledger a
\* submit has appended to
C14_Witness ==
    \E q \in InFlight :
        /\ q.kind = "toggle" /\ q.writes = 1 /\ q.idx = 2
        /\ Len(sheet) > MaxInitRows /\ Len(sheet) >= 2
        /\ sheet[1].ID = q.order_id /\ sheet[1].Status = q.new_status

\* C15: the records every broadcast_queue holds are the ledger as it was at
\* the step of its read, every projection a viewer receives is the
\* projection of the records held by the broadcast_queue that emits it, and
\* at the step of the emission the ledger has been written at most once
\* since those records were read.
C15_AtMostOneMutationBehind ==
    [][/\ \A q \in NewlyRead : q.records = sheet /\ q.snapVer = version
       /\ \A v \in Viewers :
             (inbox'[v] # inbox[v] /\ inbox'[v].got) =>
                 \E q \in InFlight :
                     /\ q.pc = "bq_emit"
                     /\ inbox'[v].msg = Projection(q.records)
                     /\ inbox'[v].ver = q.snapVer
                     /\ version - q.snapVer <= 1]_vars

\* the word of the specification for a flag that is not set
NO == <<"N","o">>

\* C16: right after a toggle has written Pending over the Done it read, the
\* printed and claimed flags of that order are both No.
C16_DoneToPendingResetsFlags ==
    \A q \in InFlight :
        (/\ q.kind = "toggle" /\ q.writes = 1 /\ q.pc = "bq_read"
         /\ q.new_status = PENDING) =>
            /\ Get(sheet[q.idx - 1], "Printed", None) = NO
            /\ Get(sheet[q.idx - 1], "Claimed", None) = NO

\* C17: for the ledger of every reachable state, and for the records held
\* by every broadcast_queue, the list /api/queue returns (the rows whose
\* stripped, lower-cased status is not "done") is the list broadcast_queue
\* emits (the rows whose lower-cased status is "pending"), QueueNumber
\* included.
C17_ApiQueueIsBroadcastList ==
    /\ api_queue(sheet) = Projection(sheet)
    /\ \A q \in InFlight : q.pc = "bq_emit" => api_queue(q.records) = Projection(q.records)

\* the ledger holds a row a toggle set to Done before a row that is Pending,
\* and /api/queue returns a list that is not empty
C17_Witness ==
    /\ \E q \in InFlight : q.kind = "toggle" /\ q.writes = 1 /\ q.new_status = DONE
    /\ \E i, j \in DOMAIN sheet :
          i < j /\ sheet[i].Status = DONE /\ sheet[j].Status = PENDING
    /\ api_queue(sheet) # <<>>

\* C18: on the ledger of every reachable state and for the ID of every one
\* of its rows, an admin's toggle run without interleaving changes the
\* status of the first row with that ID and nothing else, and a second such
\* toggle on the same ID gives back the ledger as it was before the first.
C18_ToggleTwiceRestoresLedger ==
    \A id \in IdsOf(sheet) :
        LET once == SerialToggle(sheet, id)
        IN  /\ ChangedRows(sheet, once) = {FirstMatch(sheet, id)}
            /\ SerialToggle(once, id) = sheet

\* two toggles of an admin have each written the status of the one order of
\* the ledger, the second having read what the first wrote: the status is
\* back to what it was before them
C18_Witness ==
    \E q \in InFlight :
        /\ q.kind = "toggle" /\ q.is_admin /\ q.writes = 1
        /\ version = 2 /\ arrived = 2 /\ Len(sheet) = 1
        /\ q.idx = 2 /\ sheet[1].Status = expected[1]
        /\ SerialToggle(sheet, q.order_id) # sheet

\* C19: in the runs in which submits do not overlap, the ID of every row of
\* the ledger is its position (counted from 1), and the row a toggle has
\* matched, the row it writes, is the row at position order_id.
C19_IdIsPosition ==
    /\ \A i \in DOMAIN sheet : sheet[i].ID = i
    /\ \A q \in InFlight :
          (q.kind = "toggle" /\ q.matched) => q.idx - 1 = q.order_id

\* a toggle has written the status of the last row of the ledger, a row a
\* submit appended
C19_Witness ==
    \E q \in InFlight :
        /\ q.kind = "toggle" /\ q.writes = 1
        /\ Len(sheet) > MaxInitRows /\ q.order_id = Len(sheet)
        /\ sheet[q.order_id].Status = q.new_status

====
